---- MODULE Spec2Model ----
(***************************************************************************)
(* Model of custom_components/houzzkit_ai/houzzkit/mcp_transport.py:       *)
(* the McpTransport reconnect loop (run_connection_loop), one connection   *)
(* attempt (connect_to_client, _establish_websocket_connection), the duty  *)
(* tasks of a connected session, and the host operations set_endpoint and  *)
(* stop.  The code runs on one asyncio event loop, so a step of the model  *)
(* is the code executed between two suspension points (await).             *)
(***************************************************************************)
EXTENDS Integers, FiniteSets, Sequences, TLC

(* ---------------------------------------------------------------------- *)
(* Values                                                                 *)
(* ---------------------------------------------------------------------- *)

\* entry.data.get("mcp_endpoint") when the key is absent
NoEndpoint == "none"

\* the endpoint addresses a host may configure
Endpoints == {"ws://a", "ws://b"}

\* the four memory object stream ends of _create_streams
StreamNames == {"recv_writer", "recv_reader", "send_writer", "send_reader"}

\* the three tasks started in the task group plus the server run of the host task
Duties == {"reader", "writer", "heartbeat", "engine"}

\* cap on reconnect_times, which the code leaves unbounded
MaxReconnectTimes == 14

\* a TEXT frame that lines 213-214 accept, and one they reject
FrameKinds == {"text", "bad"}

\* bound of the model: frames the remote end sends within one connection
MaxFrames == 3

\* bound of the model: messages the server run produces within one connection
MaxOut == 2

\* bound of the model: backoff sleeps followed within a run of connections
MaxSleeps == 2

\* line 104: max(min(60, reconnect_times * 5), 1)
MaxDelay == 60
DelayStep == 5
MinDelay == 1

\* line 227: asyncio.sleep(55)
HeartbeatInterval == 55

\* line 166: err.status == 401
Unauthorized == 401

\* the statuses a WSServerHandshakeError may carry: the authorization
\* rejection and one other
HandshakeStatuses == {Unauthorized, 403}

Min(a, b) == IF a < b THEN a ELSE b
Max(a, b) == IF a > b THEN a ELSE b

(* ---------------------------------------------------------------------- *)
(* State                                                                  *)
(* ---------------------------------------------------------------------- *)

VARIABLES
    endpoint,          \* McpTransport.endpoint
    reconnect_times,   \* McpTransport.reconnect_times
    should_reconnect,  \* McpTransport.should_reconnect
    current_ws,        \* state of the socket McpTransport._current_ws refers to
    streams,           \* state of _recv_writer, _recv_reader, _send_writer, _send_reader
    session_open,      \* a Session of this transport is registered in the SessionManager
    pc,                \* position of the run_connection_loop task
    raised,            \* the attempt is unwinding with an exception
    target,            \* the address ws_connect was called with
    sleepLeft,         \* time left of the loop's asyncio.sleep(seconds)
    duty,              \* state of each duty of the connected session
    hbLeft,            \* time left of the heartbeat's asyncio.sleep(55)
    stopPc,            \* position of the stop() coroutine
    authRejected,      \* history: a 401 was observed and set_endpoint not called since
    rearmed,           \* history: set_endpoint called after a 401, no handshake begun since
    swapPending,       \* history: set_endpoint replaced the endpoint, no handshake begun since
    failRun,           \* history: backoffs scheduled since the last connection, set_endpoint or stop
    established,       \* history: the current attempt reached the connected state
    noopCall,          \* history: set_endpoint was called with the current value while
                       \* the loop was about to exit, and with no other value since
    pingFailed,        \* history: a heartbeat ping of this connection failed
    outcome,           \* history: how the handshake of the current attempt ended
    successor,         \* the transport async_setup_entry put in this one's place
    received,          \* history: the frames the reader took from the socket, in order
    delivered,         \* history: the frames handed to the server run, by position in received
    inHeld,            \* the frame the reader is handing over (0: none)
    produced,          \* history: the messages the server run put on the outbound channel
    sent,              \* history: the messages the writer sent on the socket
    outHeld,           \* the message the writer is sending (0: none)
    reg,               \* the config entries a reconciliation pass iterates over
    regCalled,         \* history: the entries the last pass called set_endpoint on
    passes,            \* history: passes run since an entry was last edited (at most 2)
    streamsOf,         \* history: the attempt that created the four streams the
                       \* object refers to: none, this attempt or an earlier one
    sleeps             \* history: backoff sleeps that ended within a run of connections

codeVars == <<endpoint, reconnect_times, should_reconnect, current_ws, streams,
              session_open, pc, raised, target, sleepLeft, duty, hbLeft, stopPc>>
codeVars_but_duty == <<endpoint, reconnect_times, should_reconnect, current_ws, streams,
                       session_open, pc, raised, target, sleepLeft, hbLeft, stopPc>>
histVars == <<authRejected, rearmed, swapPending, failRun, established, noopCall>>
msgVars == <<received, delivered, inHeld, produced, sent, outHeld>>
ghostVars == <<streamsOf, sleeps>>
regVars == <<reg, regCalled, passes>>
vars == <<endpoint, reconnect_times, should_reconnect, current_ws, streams,
          session_open, pc, raised, target, sleepLeft, duty, hbLeft, stopPc,
          authRejected, rearmed, swapPending, failRun, established, noopCall,
          pingFailed, outcome, successor, received, delivered, inHeld, produced, sent,
          outHeld, reg, regCalled, passes, streamsOf, sleeps>>

AllStreams(v) == [s \in StreamNames |-> v]
AllDuties(v) == [d \in Duties |-> v]

TypeOK ==
    /\ endpoint \in Endpoints \cup {NoEndpoint}
    /\ reconnect_times \in 0..(MaxReconnectTimes + 1)
    /\ should_reconnect \in BOOLEAN
    /\ current_ws \in {"none", "open", "closed"}
    /\ streams \in [StreamNames -> {"none", "open", "closed"}]
    /\ session_open \in BOOLEAN
    /\ pc \in {"start", "create_server", "handshake", "connected", "closing", "sleep", "exited"}
    /\ raised \in BOOLEAN
    /\ target \in Endpoints \cup {NoEndpoint}
    /\ sleepLeft \in 0..MaxDelay
    /\ duty \in [Duties -> {"idle", "running", "check", "sleep", "sending", "done",
                          "failed", "cancelled"}]
    /\ hbLeft \in 0..HeartbeatInterval
    /\ stopPc \in {"idle", "closing_ws", "returned"}
    /\ pingFailed \in BOOLEAN
    /\ outcome \in {"none", "ok", "auth", "rejected", "error"}
    /\ successor \in {"none", "idle", "open"}
    /\ received \in Seq(FrameKinds) /\ Len(received) <= MaxFrames
    /\ delivered \in Seq(1..MaxFrames)
    /\ inHeld \in 0..MaxFrames
    /\ produced \in Seq(1..MaxOut)
    /\ sent \in Seq(1..MaxOut)
    /\ outHeld \in 0..MaxOut
    /\ passes \in 0..2
    /\ streamsOf \in {"none", "this", "earlier"}
    /\ sleeps \in 0..MaxSleeps

\* class attributes (lines 61-69), __init__ (line 76) and the task created by
\* async_setup_entry (line 31), which has not run yet
Init ==
    /\ endpoint \in Endpoints \cup {NoEndpoint}
    /\ reconnect_times = 0
    /\ should_reconnect = TRUE
    /\ current_ws = "none"
    /\ streams = AllStreams("none")
    /\ session_open = FALSE
    /\ pc = "start"
    /\ raised = FALSE
    /\ target = NoEndpoint
    /\ sleepLeft = 0
    /\ duty = AllDuties("idle")
    /\ hbLeft = 0
    /\ stopPc = "idle"
    /\ authRejected = FALSE
    /\ rearmed = FALSE
    /\ swapPending = FALSE
    /\ failRun = 0
    /\ established = FALSE
    /\ noopCall = FALSE
    /\ pingFailed = FALSE
    /\ outcome = "none"
    /\ successor = "none"
    /\ received = <<>>
    /\ delivered = <<>>
    /\ inHeld = 0
    /\ produced = <<>>
    /\ sent = <<>>
    /\ outHeld = 0
    /\ reg = <<>>
    /\ regCalled = {}
    /\ passes = 0
    /\ streamsOf = "none"
    /\ sleeps = 0

(* ---------------------------------------------------------------------- *)
(* Expressions of the code                                                 *)
(* ---------------------------------------------------------------------- *)

\* line 104 without the max(..., 1)
BackoffSeconds_NoFloor(n) == Min(MaxDelay, n * DelayStep)

\* line 104: seconds = max(min(60, self.reconnect_times * 5), 1)
BackoffSeconds(n) == Max(Min(MaxDelay, n * DelayStep), MinDelay)

\* the test of line 112 left out
EndpointMissing_Never(ep) == FALSE

\* line 112: if not self.endpoint
EndpointMissing(ep) == ep = NoEndpoint

\* the test of line 166 made against another status
DisablesReconnect_Forbidden(status) == status = 403

\* the test of line 166 left out: every handshake error disables reconnection
DisablesReconnect_AnyStatus(status) == TRUE

\* lines 166-167: if err.status == 401: self.should_reconnect = False
DisablesReconnect(status) == status = Unauthorized

\* line 150 left out: the counter survives a successful connection
ReconnectTimesOnConnect_Kept(n) == n

\* line 150: self.reconnect_times = 0
ReconnectTimesOnConnect(n) == 0

\* line 226: self.should_reconnect and self._current_ws and not self._current_ws.closed
HeartbeatContinues(flag, ws) == flag /\ ws = "open"

(* ---------------------------------------------------------------------- *)
(* run_connection_loop and one connection attempt                          *)
(* ---------------------------------------------------------------------- *)

\* lines 103-108 run once for every duty of the session that has ended
BackoffOrExit_PerDuty ==
    IF should_reconnect
    THEN /\ reconnect_times < MaxReconnectTimes
         /\ sleepLeft' = BackoffSeconds(reconnect_times)
         /\ reconnect_times' =
                reconnect_times + Cardinality({d \in Duties : duty[d] \in {"done", "failed"}})
         /\ failRun' = failRun + 1
         /\ pc' = "sleep"
    ELSE /\ pc' = "exited"
         /\ UNCHANGED <<sleepLeft, reconnect_times, failRun>>

\* lines 103-108 followed, when the flag is false, by the loop test of line 96
BackoffOrExit ==
    IF should_reconnect
    THEN /\ reconnect_times < MaxReconnectTimes
         /\ sleepLeft' = BackoffSeconds(reconnect_times)
         /\ reconnect_times' = reconnect_times + 1
         /\ failRun' = failRun + 1
         /\ pc' = "sleep"
    ELSE /\ pc' = "exited"
         /\ UNCHANGED <<sleepLeft, reconnect_times, failRun>>

\* lines 96-100 and 112-116: the loop test, then the entry of connect_to_client
\* up to its first suspension in _create_server
LoopIterate ==
    /\ \/ pc = "start"
       \/ pc = "sleep" /\ sleepLeft = 0
    /\ IF ~should_reconnect
       THEN pc' = "exited"
       ELSE IF EndpointMissing(endpoint)
            THEN pc' = "exited"
            ELSE pc' = "create_server"
    /\ duty' = AllDuties("idle")
    /\ established' = FALSE
    /\ UNCHANGED <<endpoint, reconnect_times, should_reconnect, current_ws, streams,
                   session_open, raised, target, sleepLeft, hbLeft, stopPc,
                   authRejected, rearmed, swapPending, failRun>>
    /\ UNCHANGED noopCall
    /\ streamsOf' = IF streamsOf = "none" THEN "none" ELSE "earlier"
    /\ UNCHANGED <<msgVars, regVars, sleeps, successor>>
    /\ pingFailed' = FALSE
    /\ outcome' = "none"

\* lines 125-127 raising with nothing at line 101 to catch it: the task ends
CreateServerFails_Uncaught ==
    /\ pc = "create_server"
    /\ pc' = "exited"
    /\ UNCHANGED <<endpoint, should_reconnect, current_ws, streams, session_open,
                   raised, target, duty, hbLeft, stopPc, sleepLeft, reconnect_times,
                   histVars, msgVars, regVars, ghostVars, successor, pingFailed, outcome>>

\* lines 125-127 raising: re-raised at 134-136, caught at 101, then line 103
CreateServerFails ==
    /\ pc = "create_server"
    /\ BackoffOrExit
    /\ UNCHANGED <<endpoint, should_reconnect, current_ws, streams, session_open,
                   raised, target, duty, hbLeft, stopPc,
                   authRejected, rearmed, swapPending, established>>
    /\ UNCHANGED noopCall
    /\ UNCHANGED <<msgVars, regVars, ghostVars, successor>>
    /\ UNCHANGED pingFailed
    /\ UNCHANGED outcome

\* lines 130-132 and 142-148 without line 129: the attempt goes on with the
\* streams the object already refers to (the first attempt creates them)
BeginHandshake_StreamsKept ==
    /\ pc = "create_server"
    /\ streams' = IF streamsOf = "none" THEN AllStreams("open") ELSE streams
    /\ streamsOf' = IF streamsOf = "none" THEN "this" ELSE streamsOf
    /\ session_open' = TRUE
    /\ target' = endpoint
    /\ pc' = "handshake"
    /\ rearmed' = FALSE
    /\ swapPending' = FALSE
    /\ UNCHANGED <<endpoint, reconnect_times, should_reconnect, current_ws, raised,
                   sleepLeft, duty, hbLeft, stopPc, authRejected, failRun, established>>
    /\ UNCHANGED <<noopCall, msgVars, regVars, sleeps, successor, pingFailed, outcome>>

\* lines 129-132 and 142-148: fresh streams, the session is registered, and
\* ws_connect is called with the endpoint as it is now; the histories of the
\* messages are those of one connection and start anew
BeginHandshake ==
    /\ pc = "create_server"
    /\ streams' = AllStreams("open")
    /\ streamsOf' = "this"
    /\ session_open' = TRUE
    /\ target' = endpoint
    /\ pc' = "handshake"
    /\ rearmed' = FALSE
    /\ swapPending' = FALSE
    /\ received' = <<>>
    /\ delivered' = <<>>
    /\ produced' = <<>>
    /\ sent' = <<>>
    /\ UNCHANGED <<endpoint, reconnect_times, should_reconnect, current_ws, raised,
                   sleepLeft, duty, hbLeft, stopPc, authRejected, failRun, established>>
    /\ UNCHANGED noopCall
    /\ UNCHANGED <<inHeld, outHeld, regVars, sleeps, successor>>
    /\ UNCHANGED pingFailed
    /\ UNCHANGED outcome

\* lines 148-157: the handshake succeeds, the three tasks are started and the
\* host task enters the server run
HandshakeOk ==
    /\ pc = "handshake"
    /\ current_ws' = "open"
    /\ reconnect_times' = ReconnectTimesOnConnect(reconnect_times)
    /\ duty' = [d \in Duties |-> IF d = "heartbeat" THEN "check" ELSE "running"]
    /\ pc' = "connected"
    /\ failRun' = 0
    /\ established' = TRUE
    /\ UNCHANGED <<endpoint, should_reconnect, streams, session_open, raised, target,
                   sleepLeft, hbLeft, stopPc, authRejected, rearmed, swapPending>>
    /\ UNCHANGED noopCall
    /\ UNCHANGED <<msgVars, regVars, ghostVars, successor>>
    /\ UNCHANGED pingFailed
    /\ outcome' = "ok"

\* lines 164-168: WSServerHandshakeError, swallowed; a 401 disables reconnection
HandshakeRejected(status) ==
    /\ pc = "handshake"
    /\ should_reconnect' = IF DisablesReconnect(status) THEN FALSE ELSE should_reconnect
    /\ authRejected' = (authRejected \/ status = Unauthorized)
    /\ raised' = FALSE
    /\ pc' = "closing"
    /\ UNCHANGED <<endpoint, reconnect_times, current_ws, streams, session_open, target,
                   sleepLeft, duty, hbLeft, stopPc, rearmed, swapPending, failRun,
                   established>>
    /\ UNCHANGED noopCall
    /\ UNCHANGED <<msgVars, regVars, ghostVars, successor>>
    /\ UNCHANGED pingFailed
    /\ outcome' = IF status = Unauthorized THEN "auth" ELSE "rejected"

\* lines 169-171: any other connect failure is re-raised
ConnectFails ==
    /\ pc = "handshake"
    /\ raised' = TRUE
    /\ pc' = "closing"
    /\ UNCHANGED <<endpoint, reconnect_times, should_reconnect, current_ws, streams,
                   session_open, target, sleepLeft, duty, hbLeft, stopPc,
                   authRejected, rearmed, swapPending, failRun, established>>
    /\ UNCHANGED noopCall
    /\ UNCHANGED <<msgVars, regVars, ghostVars, successor>>
    /\ UNCHANGED pingFailed
    /\ outcome' = "error"

\* the session scope of line 131 releasing the session only on a normal return
AttemptReturns_SessionKept ==
    /\ pc = "closing"
    /\ session_open' = raised
    /\ raised' = FALSE
    /\ IF raised
       THEN BackoffOrExit
       ELSE IF ~should_reconnect
            THEN /\ pc' = "exited"
                 /\ UNCHANGED <<sleepLeft, reconnect_times, failRun>>
            ELSE BackoffOrExit
    /\ UNCHANGED <<endpoint, should_reconnect, current_ws, streams, target, duty,
                   hbLeft, stopPc, authRejected, rearmed, swapPending, established>>
    /\ UNCHANGED <<noopCall, msgVars, regVars, ghostVars, successor, pingFailed, outcome>>

\* the attempt ending with an exception taken as a reason to leave the loop
AttemptReturns_ErrorEndsLoop ==
    /\ pc = "closing"
    /\ session_open' = FALSE
    /\ raised' = FALSE
    /\ IF raised \/ ~should_reconnect
       THEN /\ pc' = "exited"
            /\ UNCHANGED <<sleepLeft, reconnect_times, failRun>>
       ELSE BackoffOrExit
    /\ UNCHANGED <<endpoint, should_reconnect, current_ws, streams, target, duty,
                   hbLeft, stopPc, authRejected, rearmed, swapPending, established>>
    /\ UNCHANGED <<noopCall, msgVars, regVars, ghostVars, successor, pingFailed, outcome>>

\* the attempt leaves the ClientSession (line 145) and the session scope
\* (line 131); then line 138 and 99-100, or 134-136 and 101, then line 103
AttemptReturns ==
    /\ pc = "closing"
    /\ session_open' = FALSE
    /\ raised' = FALSE
    /\ IF raised
       THEN BackoffOrExit
       ELSE IF ~should_reconnect
            THEN /\ pc' = "exited"
                 /\ UNCHANGED <<sleepLeft, reconnect_times, failRun>>
            ELSE BackoffOrExit
    /\ UNCHANGED <<endpoint, should_reconnect, current_ws, streams, target, duty,
                   hbLeft, stopPc, authRejected, rearmed, swapPending, established>>
    /\ UNCHANGED noopCall
    /\ UNCHANGED <<msgVars, regVars, ghostVars, successor>>
    /\ UNCHANGED pingFailed
    /\ UNCHANGED outcome

(* ---------------------------------------------------------------------- *)
(* The duties of a connected session                                       *)
(* ---------------------------------------------------------------------- *)

\* the remote end closes the connection: the socket is closed under the reader
RemoteCloses ==
    /\ pc = "connected"
    /\ current_ws = "open"
    /\ current_ws' = "closed"
    /\ UNCHANGED <<endpoint, reconnect_times, should_reconnect, streams, session_open,
                   pc, raised, target, sleepLeft, duty, hbLeft, stopPc, histVars>>
    /\ UNCHANGED <<msgVars, regVars, ghostVars, successor>>
    /\ UNCHANGED pingFailed
    /\ UNCHANGED outcome

\* lines 182-190: an ERROR frame or a read error ends the reader, which raises
RemoteError ==
    /\ pc = "connected"
    /\ duty["reader"] = "running"
    /\ current_ws = "open"
    /\ duty' = [duty EXCEPT !["reader"] = "failed"]
    /\ UNCHANGED <<endpoint, reconnect_times, should_reconnect, current_ws, streams,
                   session_open, pc, raised, target, sleepLeft, hbLeft, stopPc, histVars>>
    /\ UNCHANGED <<msgVars, regVars, ghostVars, successor>>
    /\ UNCHANGED pingFailed
    /\ UNCHANGED outcome

\* lines 176-187 without the finally clause of lines 188-190: the iteration
\* over a closed socket ends and the reader returns
ReaderEnds_Quietly ==
    /\ pc = "connected"
    /\ duty["reader"] = "running"
    /\ current_ws = "closed"
    /\ duty' = [duty EXCEPT !["reader"] = "done"]
    /\ UNCHANGED <<endpoint, reconnect_times, should_reconnect, current_ws, streams,
                   session_open, pc, raised, target, sleepLeft, hbLeft, stopPc, histVars,
                   msgVars, regVars, ghostVars, successor, pingFailed, outcome>>

\* lines 176 and 188-190: the iteration over a closed socket ends and the
\* finally clause raises StopAsyncIteration
ReaderEnds ==
    /\ pc = "connected"
    /\ duty["reader"] = "running"
    /\ current_ws = "closed"
    /\ duty' = [duty EXCEPT !["reader"] = "failed"]
    /\ UNCHANGED <<endpoint, reconnect_times, should_reconnect, current_ws, streams,
                   session_open, pc, raised, target, sleepLeft, hbLeft, stopPc, histVars>>
    /\ UNCHANGED <<msgVars, regVars, ghostVars, successor>>
    /\ UNCHANGED pingFailed
    /\ UNCHANGED outcome

\* lines 195 and 204-209: the outbound channel is closed, the iteration ends
\* and the finally clause closes the socket
WriterChannelClosed ==
    /\ pc = "connected"
    /\ duty["writer"] = "running"
    /\ \/ streams["send_writer"] = "closed"
       \/ streams["send_reader"] = "closed"
    /\ duty' = [duty EXCEPT !["writer"] = "done"]
    /\ current_ws' = "closed"
    /\ UNCHANGED <<endpoint, reconnect_times, should_reconnect, streams, session_open,
                   pc, raised, target, sleepLeft, hbLeft, stopPc, histVars>>
    /\ UNCHANGED <<msgVars, regVars, ghostVars, successor>>
    /\ UNCHANGED pingFailed
    /\ UNCHANGED outcome

\* lines 201-209: send_str raises, the error is logged and the socket closed
WriterSocketError ==
    /\ pc = "connected"
    /\ duty["writer"] = "running"
    /\ streams["send_writer"] = "open"
    /\ streams["send_reader"] = "open"
    /\ duty' = [duty EXCEPT !["writer"] = "done"]
    /\ current_ws' = "closed"
    /\ UNCHANGED <<endpoint, reconnect_times, should_reconnect, streams, session_open,
                   pc, raised, target, sleepLeft, hbLeft, stopPc, histVars>>
    /\ UNCHANGED <<msgVars, regVars, ghostVars, successor>>
    /\ UNCHANGED pingFailed
    /\ UNCHANGED outcome

\* lines 156-159: the server run returns or raises (the error is logged); the
\* server closes the two stream ends it was given
EngineEnds ==
    /\ pc = "connected"
    /\ duty["engine"] = "running"
    /\ duty' = [duty EXCEPT !["engine"] = "done"]
    /\ streams' = [streams EXCEPT !["recv_reader"] = "closed", !["send_writer"] = "closed"]
    /\ UNCHANGED <<endpoint, reconnect_times, should_reconnect, current_ws, session_open,
                   pc, raised, target, sleepLeft, hbLeft, stopPc, histVars>>
    /\ UNCHANGED <<msgVars, regVars, ghostVars, successor>>
    /\ UNCHANGED pingFailed
    /\ UNCHANGED outcome

\* lines 226-227: the loop test of the heartbeat, then the sleep
HeartbeatCheck ==
    /\ pc = "connected"
    /\ duty["heartbeat"] = "check"
    /\ IF HeartbeatContinues(should_reconnect, current_ws)
       THEN /\ duty' = [duty EXCEPT !["heartbeat"] = "sleep"]
            /\ hbLeft' = HeartbeatInterval
       ELSE /\ duty' = [duty EXCEPT !["heartbeat"] = "done"]
            /\ hbLeft' = 0
    /\ UNCHANGED <<endpoint, reconnect_times, should_reconnect, current_ws, streams,
                   session_open, pc, raised, target, sleepLeft, stopPc, histVars>>
    /\ UNCHANGED <<msgVars, regVars, ghostVars, successor>>
    /\ UNCHANGED pingFailed
    /\ UNCHANGED outcome

\* lines 228-231: the ping after the sleep; ok is the outcome on an open socket,
\* on a closed one the ping raises; a failure is logged and the task returns
HeartbeatPing(ok) ==
    /\ pc = "connected"
    /\ duty["heartbeat"] = "sleep"
    /\ hbLeft = 0
    /\ IF ok /\ current_ws = "open"
       THEN duty' = [duty EXCEPT !["heartbeat"] = "check"]
       ELSE duty' = [duty EXCEPT !["heartbeat"] = "done"]
    /\ UNCHANGED <<endpoint, reconnect_times, should_reconnect, current_ws, streams,
                   session_open, pc, raised, target, sleepLeft, hbLeft, stopPc, histVars>>
    /\ UNCHANGED <<msgVars, regVars, ghostVars, successor>>
    /\ pingFailed' = (pingFailed \/ ~(ok /\ current_ws = "open"))
    /\ UNCHANGED outcome

\* the group left without cancelling and awaiting the tasks it started
GroupExit_NoCancel ==
    /\ pc = "connected"
    /\ duty["reader"] = "failed"
    /\ duty' = duty
    /\ hbLeft' = 0
    /\ current_ws' = "closed"
    /\ raised' = TRUE
    /\ pc' = "closing"
    /\ UNCHANGED <<endpoint, reconnect_times, should_reconnect, streams, session_open,
                   target, sleepLeft, stopPc, histVars>>
    /\ UNCHANGED <<msgVars, regVars, ghostVars, successor>>
    /\ UNCHANGED pingFailed
    /\ UNCHANGED outcome

\* the group left without an exception, the reader having ended quietly
GroupExit_Normally ==
    /\ pc = "connected"
    /\ duty["reader"] = "failed"
    /\ duty' = [d \in Duties |->
                  IF duty[d] \in {"done", "failed"} THEN duty[d] ELSE "cancelled"]
    /\ hbLeft' = 0
    /\ current_ws' = "closed"
    /\ raised' = FALSE
    /\ pc' = "closing"
    /\ inHeld' = 0
    /\ outHeld' = 0
    /\ UNCHANGED <<endpoint, reconnect_times, should_reconnect, streams, session_open,
                   target, sleepLeft, stopPc, histVars>>
    /\ UNCHANGED <<received, delivered, produced, sent, regVars, ghostVars, successor,
                   pingFailed, outcome>>

\* the group left without the ws_connect context of line 148 closing the socket
GroupExit_SocketLeftOpen ==
    /\ pc = "connected"
    /\ duty["reader"] = "failed"
    /\ duty' = [d \in Duties |->
                  IF duty[d] \in {"done", "failed"} THEN duty[d] ELSE "cancelled"]
    /\ hbLeft' = 0
    /\ raised' = TRUE
    /\ pc' = "closing"
    /\ inHeld' = 0
    /\ outHeld' = 0
    /\ UNCHANGED <<endpoint, reconnect_times, should_reconnect, current_ws, streams,
                   session_open, target, sleepLeft, stopPc, histVars>>
    /\ UNCHANGED <<received, delivered, produced, sent, regVars, ghostVars, successor,
                   pingFailed, outcome>>

\* lines 151-163 and 169-171: the reader's exception cancels the task group,
\* the group is left with that exception and the socket context closes the
\* socket; what a cancelled task held in a send is dropped with it
GroupExit ==
    /\ pc = "connected"
    /\ duty["reader"] = "failed"
    /\ duty' = [d \in Duties |->
                  IF duty[d] \in {"done", "failed"} THEN duty[d] ELSE "cancelled"]
    /\ hbLeft' = 0
    /\ current_ws' = "closed"
    /\ raised' = TRUE
    /\ pc' = "closing"
    /\ inHeld' = 0
    /\ outHeld' = 0
    /\ UNCHANGED <<endpoint, reconnect_times, should_reconnect, streams, session_open,
                   target, sleepLeft, stopPc, histVars>>
    /\ UNCHANGED <<received, delivered, produced, sent, regVars, ghostVars, successor>>
    /\ UNCHANGED pingFailed
    /\ UNCHANGED outcome

\* one time unit passes for the timers of lines 108 and 227
Tick ==
    /\ \/ pc = "sleep" /\ sleepLeft > 0
       \/ duty["heartbeat"] = "sleep" /\ hbLeft > 0
    /\ sleepLeft' = IF pc = "sleep" /\ sleepLeft > 0 THEN sleepLeft - 1 ELSE sleepLeft
    /\ hbLeft' = IF duty["heartbeat"] = "sleep" /\ hbLeft > 0 THEN hbLeft - 1 ELSE hbLeft
    /\ UNCHANGED <<endpoint, reconnect_times, should_reconnect, current_ws, streams,
                   session_open, pc, raised, target, duty, stopPc, histVars>>
    /\ UNCHANGED <<msgVars, regVars, ghostVars, successor>>
    /\ UNCHANGED pingFailed
    /\ UNCHANGED outcome

(* ---------------------------------------------------------------------- *)
(* Operations of the host                                                  *)
(* ---------------------------------------------------------------------- *)

\* set_endpoint tearing the active socket down to force the reconnect
set_endpoint_Preempting(e) ==
    /\ endpoint' = e
    /\ reconnect_times' = 0
    /\ should_reconnect' = TRUE
    /\ current_ws' = IF current_ws = "none" THEN "none" ELSE "closed"
    /\ authRejected' = FALSE
    /\ rearmed' = (rearmed \/ authRejected)
    /\ swapPending' = (swapPending \/ e # endpoint)
    /\ failRun' = 0
    /\ noopCall' = noopCall
    /\ UNCHANGED <<streams, session_open, pc, raised, target, sleepLeft,
                   duty, hbLeft, stopPc, established>>
    /\ UNCHANGED <<msgVars, regVars, ghostVars, successor>>
    /\ UNCHANGED pingFailed
    /\ UNCHANGED outcome

\* lines 78-82 without the assignment of line 81
set_endpoint_CounterKept(e) ==
    /\ endpoint' = e
    /\ should_reconnect' = TRUE
    /\ authRejected' = FALSE
    /\ rearmed' = (rearmed \/ authRejected)
    /\ swapPending' = (swapPending \/ e # endpoint)
    /\ failRun' = 0
    /\ noopCall' = IF e # endpoint THEN FALSE
                   ELSE (noopCall \/ (~should_reconnect /\ pc \in {"sleep", "closing"}))
    /\ UNCHANGED <<reconnect_times, current_ws, streams, session_open, pc, raised, target,
                   sleepLeft, duty, hbLeft, stopPc, established>>
    /\ UNCHANGED <<msgVars, regVars, ghostVars, successor, pingFailed, outcome>>

\* lines 78-82; the method has no suspension point, so it is one step
set_endpoint(e) ==
    /\ endpoint' = e
    /\ reconnect_times' = 0
    /\ should_reconnect' = TRUE
    /\ authRejected' = FALSE
    /\ rearmed' = (rearmed \/ authRejected)
    /\ swapPending' = (swapPending \/ e # endpoint)
    /\ failRun' = 0
    /\ UNCHANGED <<current_ws, streams, session_open, pc, raised, target, sleepLeft,
                   duty, hbLeft, stopPc, established>>
    /\ noopCall' = IF e # endpoint THEN FALSE
                   ELSE (noopCall \/ (~should_reconnect /\ pc \in {"sleep", "closing"}))
    /\ UNCHANGED <<msgVars, regVars, ghostVars, successor>>
    /\ UNCHANGED pingFailed
    /\ UNCHANGED outcome

\* lines 233-241 up to the suspension in _current_ws.close(): the flag, the
\* counter, the four stream ends (aclose of a memory stream does not suspend),
\* and the close of the socket is begun
stop ==
    /\ stopPc = "idle"
    /\ should_reconnect' = FALSE
    /\ reconnect_times' = 0
    /\ streams' = [s \in StreamNames |-> IF streams[s] = "none" THEN "none" ELSE "closed"]
    /\ current_ws' = IF current_ws = "none" THEN "none" ELSE "closed"
    /\ stopPc' = IF current_ws = "open" THEN "closing_ws" ELSE "returned"
    /\ failRun' = 0
    /\ UNCHANGED <<endpoint, session_open, pc, raised, target, sleepLeft, duty, hbLeft,
                   authRejected, rearmed, swapPending, established>>
    /\ UNCHANGED noopCall
    /\ UNCHANGED <<msgVars, regVars, ghostVars, successor>>
    /\ UNCHANGED pingFailed
    /\ UNCHANGED outcome

\* line 241: the close of the socket completes and stop() returns
StopReturns ==
    /\ stopPc = "closing_ws"
    /\ stopPc' = "returned"
    /\ UNCHANGED <<endpoint, reconnect_times, should_reconnect, current_ws, streams,
                   session_open, pc, raised, target, sleepLeft, duty, hbLeft, histVars>>
    /\ UNCHANGED <<msgVars, regVars, ghostVars, successor>>
    /\ UNCHANGED pingFailed
    /\ UNCHANGED outcome

\* async_setup_entry for the same entry once more, lines 29-32: the
\* "await transport.stop()" of async_remove_entry (line 55) has returned for
\* this transport, a new McpTransport is created and put in its place, and
\* the new transport's loop task is created; the old loop task is neither
\* cancelled nor awaited.  Of the new transport only its socket is followed.
SetupEntryAgain ==
    /\ stopPc = "returned"
    /\ successor = "none"
    /\ successor' = "idle"
    /\ UNCHANGED <<codeVars, histVars, msgVars, regVars, ghostVars, pingFailed, outcome>>

\* lines 145-150 in the new transport: its handshake succeeds
SuccessorConnects ==
    /\ successor = "idle"
    /\ successor' = "open"
    /\ UNCHANGED <<codeVars, histVars, msgVars, regVars, ghostVars, pingFailed, outcome>>

\* lines 148, 173-190 in the new transport: its socket is closed
SuccessorDisconnects ==
    /\ successor = "open"
    /\ successor' = "idle"
    /\ UNCHANGED <<codeVars, histVars, msgVars, regVars, ghostVars, pingFailed, outcome>>

(* ---------------------------------------------------------------------- *)
(* Specifications                                                          *)
(* ---------------------------------------------------------------------- *)

LoopStep ==
    \/ LoopIterate
    \/ CreateServerFails
    \/ BeginHandshake
    \/ AttemptReturns
    \/ GroupExit

HandshakeOutcome ==
    \/ HandshakeOk
    \/ \E status \in HandshakeStatuses : HandshakeRejected(status)
    \/ ConnectFails

DutyStep ==
    \/ ReaderEnds
    \/ WriterChannelClosed
    \/ EngineEnds
    \/ HeartbeatCheck
    \/ \E ok \in BOOLEAN : HeartbeatPing(ok)

RemoteStep ==
    \/ RemoteCloses
    \/ RemoteError
    \/ WriterSocketError

HostStep ==
    \/ \E e \in Endpoints : set_endpoint(e)
    \/ stop
    \/ StopReturns
    \/ SetupEntryAgain

SuccessorStep ==
    \/ SuccessorConnects
    \/ SuccessorDisconnects

Next ==
    \/ LoopStep
    \/ HandshakeOutcome
    \/ DutyStep
    \/ RemoteStep
    \/ HostStep
    \/ SuccessorStep
    \/ Tick

Spec == Init /\ [][Next]_vars

\* The event loop runs every task that is ready, timers expire and ws_connect
\* ends within its ClientTimeout (line 143); nothing is assumed of the remote
\* end or of the host.
FairSpec ==
    /\ Init
    /\ [][Next]_vars
    /\ WF_vars(LoopStep)
    /\ WF_vars(HandshakeOutcome)
    /\ WF_vars(ReaderEnds)
    /\ WF_vars(WriterChannelClosed)
    /\ WF_vars(HeartbeatCheck)
    /\ WF_vars(\E ok \in BOOLEAN : HeartbeatPing(ok))
    /\ WF_vars(StopReturns)
    /\ WF_vars(Tick)

\* The event loop runs every task that is ready, timers expire and ws_connect
\* ends within its ClientTimeout (line 143).  Two assumptions on the
\* environment are added, which only make a liveness property easier to meet:
\* the creation of the server does not fail for ever, and no connection lasts
\* for ever.
LiveSpec ==
    /\ Init
    /\ [][Next]_vars
    /\ WF_vars(LoopStep)
    /\ SF_vars(BeginHandshake)
    /\ WF_vars(HandshakeOutcome)
    /\ WF_vars(ReaderEnds)
    /\ WF_vars(WriterChannelClosed)
    /\ WF_vars(HeartbeatCheck)
    /\ WF_vars(\E ok \in BOOLEAN : HeartbeatPing(ok))
    /\ WF_vars(StopReturns)
    /\ WF_vars(Tick)
    /\ WF_vars(RemoteCloses)

(* ---------------------------------------------------------------------- *)
(* The reconciliation pass of async_setup_entry                            *)
(* ---------------------------------------------------------------------- *)

\* the config entries of the domain that the pass iterates over (line 34)
EntryIds == {"e1", "e2"}

\* ConfigEntryState values an entry can show: the two of line 41 and one of
\* an entry that is being unloaded
EntryStates == {"LOADED", "FAILED_UNLOAD", "UNLOAD_IN_PROGRESS"}

\* values of a transport's reconnect_times at the time of a pass
EntryCounters == {0, 3}

\* an entry without a transport in hass.data (line 36 yields None)
NoTransport == [endpoint |-> NoEndpoint, reconnect_times |-> 0, should_reconnect |-> TRUE]

\* an entry as the pass sees it: ent.data["mcp_endpoint"], ent.state, and the
\* transport stored for it with its endpoint, counter and flag
Entries ==
    {ent \in [mcp_endpoint : Endpoints \cup {NoEndpoint},
              state : EntryStates,
              has_transport : BOOLEAN,
              transport : [endpoint : Endpoints \cup {NoEndpoint},
                           reconnect_times : EntryCounters,
                           should_reconnect : BOOLEAN]] :
        ~ent.has_transport => ent.transport = NoTransport}

\* line 41, with the test of the state left out
StatePermits_Any(state) == TRUE

\* line 41
StatePermits(state) == state \in {"LOADED", "FAILED_UNLOAD"}

\* lines 37-42 with "not endpoint" left out of the test of line 37
EntrySkipped_EmptyPassed(ent) ==
    \/ ~ent.has_transport
    \/ ent.mcp_endpoint = ent.transport.endpoint
    \/ ~StatePermits(ent.state)

\* lines 37-42: the three tests that end in "continue"
EntrySkipped(ent) ==
    \/ EndpointMissing(ent.mcp_endpoint) \/ ~ent.has_transport
    \/ ent.mcp_endpoint = ent.transport.endpoint
    \/ ~StatePermits(ent.state)

\* lines 78-82 without the assignment of line 80
SetEndpointOn_EndpointKept(t, e) ==
    [t EXCEPT !.should_reconnect = TRUE, !.reconnect_times = 0]

\* lines 78-82 on the transport of an entry
SetEndpointOn(t, e) ==
    [t EXCEPT !.should_reconnect = TRUE, !.endpoint = e, !.reconnect_times = 0]

\* lines 43-48 for one entry: set_endpoint, and async_update_entry with the
\* value the entry already holds
ReconcileEntry(ent) ==
    IF EntrySkipped(ent) THEN ent
    ELSE [ent EXCEPT !.transport = SetEndpointOn(ent.transport, ent.mcp_endpoint)]

\* lines 34-48: one pass over the entries; nothing in it suspends
Reconcile ==
    /\ reg # <<>>
    /\ reg' = [i \in EntryIds |-> ReconcileEntry(reg[i])]
    /\ regCalled' = {i \in EntryIds : ~EntrySkipped(reg[i])}
    /\ passes' = IF passes < 2 THEN passes + 1 ELSE passes
    /\ UNCHANGED <<codeVars, histVars, msgVars, ghostVars, pingFailed, outcome, successor>>

\* the host stores another endpoint in an entry's data (options flow)
EntryUpdated(i, e) ==
    /\ reg # <<>>
    /\ reg[i].mcp_endpoint # e
    /\ reg' = [reg EXCEPT ![i].mcp_endpoint = e]
    /\ passes' = 0
    /\ regCalled' = {}
    /\ UNCHANGED <<codeVars, histVars, msgVars, ghostVars, pingFailed, outcome, successor>>

\* the host moves an entry to another lifecycle state
EntryStateChanges(i, st) ==
    /\ reg # <<>>
    /\ reg[i].state # st
    /\ reg' = [reg EXCEPT ![i].state = st]
    /\ passes' = 0
    /\ regCalled' = {}
    /\ UNCHANGED <<codeVars, histVars, msgVars, ghostVars, pingFailed, outcome, successor>>

\* between two passes an entry's transport goes on running: its loop counts
\* attempts (line 106), connects (line 150) or is refused with 401 (line 167)
TransportRuns(i, n, flag) ==
    /\ reg # <<>>
    /\ reg[i].has_transport
    /\ <<n, flag>> # <<reg[i].transport.reconnect_times, reg[i].transport.should_reconnect>>
    /\ reg' = [reg EXCEPT ![i].transport.reconnect_times = n,
                          ![i].transport.should_reconnect = flag]
    /\ UNCHANGED <<regCalled, passes>>
    /\ UNCHANGED <<codeVars, histVars, msgVars, ghostVars, pingFailed, outcome, successor>>

\* the state a pass can find: any entries, the transport of this module idle
RegistryInit ==
    /\ endpoint = NoEndpoint
    /\ reconnect_times = 0
    /\ should_reconnect = TRUE
    /\ current_ws = "none"
    /\ streams = AllStreams("none")
    /\ session_open = FALSE
    /\ pc = "start"
    /\ raised = FALSE
    /\ target = NoEndpoint
    /\ sleepLeft = 0
    /\ duty = AllDuties("idle")
    /\ hbLeft = 0
    /\ stopPc = "idle"
    /\ authRejected = FALSE
    /\ rearmed = FALSE
    /\ swapPending = FALSE
    /\ failRun = 0
    /\ established = FALSE
    /\ noopCall = FALSE
    /\ pingFailed = FALSE
    /\ outcome = "none"
    /\ successor = "none"
    /\ received = <<>>
    /\ delivered = <<>>
    /\ inHeld = 0
    /\ produced = <<>>
    /\ sent = <<>>
    /\ outHeld = 0
    /\ reg \in [EntryIds -> Entries]
    /\ regCalled = {}
    /\ passes = 0
    /\ streamsOf = "none"
    /\ sleeps = 0

RegistryNext ==
    \/ Reconcile
    \/ \E i \in EntryIds, e \in Endpoints \cup {NoEndpoint} : EntryUpdated(i, e)
    \/ \E i \in EntryIds, st \in EntryStates : EntryStateChanges(i, st)
    \/ \E i \in EntryIds, n \in EntryCounters, flag \in BOOLEAN : TransportRuns(i, n, flag)

RegistrySpec == RegistryInit /\ [][RegistryNext]_vars

(* ---------------------------------------------------------------------- *)
(* The messages of one connection                                          *)
(* ---------------------------------------------------------------------- *)

\* the positions of the frames that lines 213-214 accept
RECURSIVE ValidPositions(_)
ValidPositions(frames) ==
    IF frames = <<>> THEN <<>>
    ELSE LET rest == ValidPositions(SubSeq(frames, 1, Len(frames) - 1))
         IN  IF frames[Len(frames)] = "text" THEN Append(rest, Len(frames)) ELSE rest

\* a hand-over that puts the frame in front of what the server run has got
InboundAfterDeliver_InFront(seq, frame) == <<frame>> \o seq

\* line 218 meeting the receive of the server run: the frame is handed over
InboundAfterDeliver(seq, frame) == Append(seq, frame)

\* a send that puts the message on the socket twice
SocketAfterSend_Twice(seq, message) == Append(Append(seq, message), message)

\* line 201: send_str puts the message on the socket
SocketAfterSend(seq, message) == Append(seq, message)

InboundOpen == streams["recv_writer"] = "open" /\ streams["recv_reader"] = "open"
OutboundOpen == streams["send_writer"] = "open" /\ streams["send_reader"] = "open"

\* the reader without the except clause of lines 220-221: a frame that does
\* not parse or validate ends the reader with the error
ReaderReceives_BadFrameRaises(kind) ==
    /\ pc = "connected"
    /\ duty["reader"] = "running"
    /\ current_ws = "open"
    /\ Len(received) < MaxFrames
    /\ received' = Append(received, kind)
    /\ IF kind = "text" /\ InboundOpen
       THEN /\ duty' = [duty EXCEPT !["reader"] = "sending"]
            /\ inHeld' = Len(received) + 1
       ELSE /\ duty' = [duty EXCEPT !["reader"] = IF kind = "bad" THEN "failed" ELSE @]
            /\ UNCHANGED inHeld
    /\ UNCHANGED <<codeVars_but_duty, histVars, regVars, ghostVars, pingFailed, outcome,
                   successor, delivered, produced, sent, outHeld>>

\* the reader with an inbound channel that buffers: the send of line 218
\* returns at once and the reader goes on to the next frame
ReaderReceives_Buffered(kind) ==
    /\ pc = "connected"
    /\ duty["reader"] = "running"
    /\ current_ws = "open"
    /\ Len(received) < MaxFrames
    /\ received' = Append(received, kind)
    /\ IF kind = "text" /\ InboundOpen
       THEN inHeld' = Len(received) + 1
       ELSE UNCHANGED inHeld
    /\ UNCHANGED <<codeVars, histVars, regVars, ghostVars, pingFailed, outcome, successor,
                   delivered, produced, sent, outHeld>>

\* lines 176-178 and 211-221: the reader takes a TEXT frame from the socket.
\* A frame that does not parse or validate is logged and dropped; so is one
\* whose send on the inbound channel raises because the channel is closed;
\* otherwise the reader is suspended in _recv_writer.send (capacity 0)
ReaderReceives(kind) ==
    /\ pc = "connected"
    /\ duty["reader"] = "running"
    /\ current_ws = "open"
    /\ Len(received) < MaxFrames
    /\ received' = Append(received, kind)
    /\ IF kind = "text" /\ InboundOpen
       THEN /\ duty' = [duty EXCEPT !["reader"] = "sending"]
            /\ inHeld' = Len(received) + 1
       ELSE UNCHANGED <<duty, inHeld>>
    /\ UNCHANGED <<codeVars_but_duty, histVars, regVars, ghostVars, pingFailed, outcome, successor,
                   delivered, produced, sent, outHeld>>

\* line 157 (the server run receives from _recv_reader) meeting line 218
EngineReceives ==
    /\ pc = "connected"
    /\ duty["reader"] = "sending"
    /\ duty["engine"] = "running"
    /\ InboundOpen
    /\ delivered' = InboundAfterDeliver(delivered, inHeld)
    /\ inHeld' = 0
    /\ duty' = [duty EXCEPT !["reader"] = "running"]
    /\ UNCHANGED <<codeVars_but_duty, histVars, regVars, ghostVars, pingFailed, outcome, successor,
                   received, produced, sent, outHeld>>

\* line 218 without the except clause of lines 220-221: the error of the
\* send ends the reader
ReaderSendFails_Raises ==
    /\ pc = "connected"
    /\ duty["reader"] = "sending"
    /\ streams["recv_reader"] = "closed"
    /\ inHeld' = 0
    /\ duty' = [duty EXCEPT !["reader"] = "failed"]
    /\ UNCHANGED <<codeVars_but_duty, histVars, regVars, ghostVars, pingFailed, outcome,
                   successor, received, delivered, produced, sent, outHeld>>

\* lines 218-221: the inbound channel is closed under the suspended send,
\* which raises; the error is logged and the frame dropped
ReaderSendFails ==
    /\ pc = "connected"
    /\ duty["reader"] = "sending"
    /\ streams["recv_reader"] = "closed"
    /\ inHeld' = 0
    /\ duty' = [duty EXCEPT !["reader"] = "running"]
    /\ UNCHANGED <<codeVars_but_duty, histVars, regVars, ghostVars, pingFailed, outcome, successor,
                   received, delivered, produced, sent, outHeld>>

\* line 157: the server run sends a message on _send_writer and is suspended
\* until the writer receives it (capacity 0)
EngineProduces ==
    /\ pc = "connected"
    /\ duty["engine"] = "running"
    /\ OutboundOpen
    /\ Len(produced) < MaxOut
    /\ produced' = Append(produced, Len(produced) + 1)
    /\ duty' = [duty EXCEPT !["engine"] = "sending"]
    /\ UNCHANGED <<codeVars_but_duty, histVars, regVars, ghostVars, pingFailed, outcome, successor,
                   received, delivered, inHeld, sent, outHeld>>

\* lines 195-201: the writer receives the message from _send_reader and is
\* suspended in send_str; the send of the server run returns
WriterTakes ==
    /\ pc = "connected"
    /\ duty["writer"] = "running"
    /\ duty["engine"] = "sending"
    /\ OutboundOpen
    /\ outHeld' = produced[Len(produced)]
    /\ duty' = [duty EXCEPT !["writer"] = "sending", !["engine"] = "running"]
    /\ UNCHANGED <<codeVars_but_duty, histVars, regVars, ghostVars, pingFailed, outcome, successor,
                   received, delivered, inHeld, produced, sent>>

\* lines 201-209: send_str returns, or it raises (as it does on a closed
\* socket): the error is logged, the socket closed and the writer ends;
\* _send_reader is left open
WriterSends(ok) ==
    /\ pc = "connected"
    /\ duty["writer"] = "sending"
    /\ outHeld' = 0
    /\ IF ok /\ current_ws = "open"
       THEN /\ sent' = SocketAfterSend(sent, outHeld)
            /\ duty' = [duty EXCEPT !["writer"] = "running"]
            /\ UNCHANGED current_ws
       ELSE /\ duty' = [duty EXCEPT !["writer"] = "done"]
            /\ current_ws' = "closed"
            /\ UNCHANGED sent
    /\ UNCHANGED <<endpoint, reconnect_times, should_reconnect, streams, session_open,
                   pc, raised, target, sleepLeft, hbLeft, stopPc, histVars, regVars, ghostVars,
                   pingFailed, outcome, successor, received, delivered, inHeld, produced>>

\* lines 156-159: the outbound channel is closed under the suspended send of
\* the server run, which ends with the error; it closes the stream ends it holds
EngineSendFails ==
    /\ pc = "connected"
    /\ duty["engine"] = "sending"
    /\ ~OutboundOpen
    /\ duty' = [duty EXCEPT !["engine"] = "done"]
    /\ streams' = [streams EXCEPT !["recv_reader"] = "closed", !["send_writer"] = "closed"]
    /\ UNCHANGED <<endpoint, reconnect_times, should_reconnect, current_ws, session_open,
                   pc, raised, target, sleepLeft, hbLeft, stopPc, histVars, regVars, ghostVars,
                   pingFailed, outcome, successor, msgVars>>

\* line 227: the sleep of the heartbeat is over
HeartbeatTimerExpires ==
    /\ duty["heartbeat"] = "sleep"
    /\ hbLeft > 0
    /\ hbLeft' = 0
    /\ UNCHANGED <<endpoint, reconnect_times, should_reconnect, current_ws, streams,
                   session_open, pc, raised, target, sleepLeft, duty, stopPc, histVars,
                   regVars, ghostVars, pingFailed, outcome, successor, msgVars>>

\* lines 148-155: the state in which a first connection starts, the
\* handshake done and the four duties started
SessionInit ==
    /\ endpoint \in Endpoints
    /\ reconnect_times = 0
    /\ should_reconnect = TRUE
    /\ current_ws = "open"
    /\ streams = AllStreams("open")
    /\ session_open = TRUE
    /\ pc = "connected"
    /\ raised = FALSE
    /\ target = endpoint
    /\ sleepLeft = 0
    /\ duty = [d \in Duties |-> IF d = "heartbeat" THEN "check" ELSE "running"]
    /\ hbLeft = 0
    /\ stopPc = "idle"
    /\ authRejected = FALSE
    /\ rearmed = FALSE
    /\ swapPending = FALSE
    /\ failRun = 0
    /\ established = TRUE
    /\ noopCall = FALSE
    /\ pingFailed = FALSE
    /\ outcome = "ok"
    /\ successor = "none"
    /\ received = <<>>
    /\ delivered = <<>>
    /\ inHeld = 0
    /\ produced = <<>>
    /\ sent = <<>>
    /\ outHeld = 0
    /\ reg = <<>>
    /\ regCalled = {}
    /\ passes = 0
    /\ streamsOf = "this"
    /\ sleeps = 0

MessageStep ==
    \/ \E kind \in FrameKinds : ReaderReceives(kind)
    \/ EngineReceives
    \/ ReaderSendFails
    \/ EngineProduces
    \/ WriterTakes
    \/ \E ok \in BOOLEAN : WriterSends(ok)
    \/ EngineSendFails

SessionNext ==
    \/ MessageStep
    \/ ReaderEnds
    \/ WriterChannelClosed
    \/ EngineEnds
    \/ HeartbeatCheck
    \/ \E ok \in BOOLEAN : HeartbeatPing(ok)
    \/ HeartbeatTimerExpires
    \/ RemoteCloses
    \/ RemoteError
    \/ GroupExit
    \/ AttemptReturns
    \/ stop
    \/ StopReturns

SessionSpec == SessionInit /\ [][SessionNext]_vars

\* The event loop runs every task that is ready: a duty whose awaited
\* operation can complete completes it, the server run receives a frame
\* offered to it whenever it is not itself suspended in a send, and the
\* timer of the heartbeat expires.  Nothing is assumed of the remote end.
SessionFairSpec ==
    /\ SessionInit
    /\ [][SessionNext]_vars
    /\ WF_vars(EngineReceives)
    /\ WF_vars(ReaderSendFails)
    /\ WF_vars(WriterTakes)
    /\ WF_vars(\E ok \in BOOLEAN : WriterSends(ok))
    /\ WF_vars(EngineSendFails)
    /\ WF_vars(ReaderEnds)
    /\ WF_vars(WriterChannelClosed)
    /\ WF_vars(HeartbeatCheck)
    /\ WF_vars(\E ok \in BOOLEAN : HeartbeatPing(ok))
    /\ WF_vars(HeartbeatTimerExpires)
    /\ WF_vars(GroupExit)
    /\ WF_vars(AttemptReturns)
    /\ WF_vars(StopReturns)

\* line 108: the backoff sleep is over
SleepExpires ==
    /\ pc = "sleep"
    /\ sleepLeft > 0
    /\ sleeps < MaxSleeps
    /\ sleepLeft' = 0
    /\ sleeps' = sleeps + 1
    /\ UNCHANGED <<endpoint, reconnect_times, should_reconnect, current_ws, streams,
                   session_open, pc, raised, target, duty, hbLeft, stopPc, histVars,
                   msgVars, regVars, streamsOf, pingFailed, outcome, successor>>

\* connections with their messages, one after the other
ReconnectNext ==
    \/ SessionNext
    \/ SleepExpires
    \/ LoopIterate
    \/ CreateServerFails
    \/ BeginHandshake
    \/ HandshakeOutcome

ReconnectSpec == SessionInit /\ [][ReconnectNext]_vars

(* ---------------------------------------------------------------------- *)
(* Properties                                                              *)
(* ---------------------------------------------------------------------- *)

\* a step in which ws_connect is called
BeginsHandshake == pc # "handshake" /\ pc' = "handshake"

\* a step in which the loop enters asyncio.sleep(seconds)
SchedulesBackoff == pc # "sleep" /\ pc' = "sleep"

\* a step in which the loop task runs its loop test
LoopRuns == (pc = "start" \/ (pc = "sleep" /\ sleepLeft = 0)) /\ pc' # pc

Clamp(x, lo, hi) == IF x < lo THEN lo ELSE IF x > hi THEN hi ELSE x

\* C1: once a handshake was rejected with status 401, and as long as
\* set_endpoint is not called, no step begins a handshake and no step
\* schedules a backoff sleep.
C1_NoReconnectAfter401 ==
    [][authRejected => (~BeginsHandshake /\ ~SchedulesBackoff)]_vars

C1_Witness == authRejected /\ pc = "exited" /\ stopPc = "idle" /\ ~should_reconnect

\* C2: a set_endpoint call made after an authorization rejection is followed
\* by a new connection attempt (unless stop() is called first).
C2_RearmLeadsToAttempt ==
    (rearmed /\ stopPc = "idle") ~> (pc = "handshake" \/ stopPc # "idle")

\* C3: the delay of the backoff scheduled after failRun earlier backoffs of
\* the same run (retry k = failRun + 1) is clamp(5 * (k - 1), 1, 60), and the
\* backoff that follows an attempt that was connected lasts 1 time unit.
C3_BackoffDelay ==
    [][SchedulesBackoff =>
          /\ sleepLeft' = Clamp(5 * failRun, 1, 60)
          /\ (established => sleepLeft' = 1)]_vars

C3_Witness == pc = "sleep" /\ failRun > 13 /\ sleepLeft = 60

\* C4: after stop() has been called no step begins a handshake.
C4_StoppedIsTerminal ==
    [][stopPc # "idle" => ~BeginsHandshake]_vars

\* C5: once stop() has returned, the transport holds no open socket and none
\* of its four stream ends is open.
C5_StopLeavesNothingOpen ==
    stopPc = "returned" =>
        /\ current_ws # "open"
        /\ \A s \in StreamNames : streams[s] # "open"

\* C6: once stop() has been called the loop does not wait in its backoff
\* sleep: no time of the sleep elapses after the call.
C6_StopInterruptsSleep ==
    [][~(stopPc # "idle" /\ pc = "sleep" /\ sleepLeft' < sleepLeft)]_vars

\* C7: when the loop runs with no endpoint configured it exits in that step,
\* opening no socket, creating no stream, scheduling no sleep and leaving the
\* attempt counter alone; and a loop that has exited stays exited.
C7_NoEndpointEndsLoop ==
    [][/\ (LoopRuns /\ endpoint = NoEndpoint) =>
              /\ pc' = "exited"
              /\ UNCHANGED <<reconnect_times, current_ws, streams, sleepLeft, session_open>>
       /\ (pc = "exited" => pc' = "exited")]_vars

C7_Witness ==
    /\ pc = "exited"
    /\ endpoint = NoEndpoint
    /\ should_reconnect
    /\ stopPc = "idle"
    /\ reconnect_times = 0
    /\ current_ws = "none"

\* C8: a set_endpoint call made while a session is connected leaves the
\* socket, the streams and the state of every duty as they are, and the
\* heartbeat's loop condition, if it held before the call, holds after it.
C8_SetEndpointDoesNotPreempt ==
    [][((\E e \in Endpoints : set_endpoint(e)) /\ pc = "connected") =>
          /\ pc' = "connected"
          /\ UNCHANGED <<current_ws, streams, duty, hbLeft, session_open>>
          /\ (HeartbeatContinues(should_reconnect, current_ws)
                 => HeartbeatContinues(should_reconnect', current_ws'))]_vars

C8_Witness ==
    /\ pc = "connected"
    /\ swapPending
    /\ current_ws = "open"
    /\ duty["reader"] = "running"
    /\ duty["writer"] = "running"
    /\ duty["engine"] = "running"
    /\ duty["heartbeat"] = "sleep"

\* C9: after set_endpoint replaced the endpoint, a handshake against the new
\* endpoint eventually begins (unless stop() is called first).
C9_SwapLeadsToHandshake ==
    (swapPending /\ stopPc = "idle") ~> (~swapPending \/ stopPc # "idle")

\* C10: a set_endpoint call with the current value, made when the loop was
\* about to exit without a further attempt, is not followed by a handshake:
\* the attempts are those made without the call.
C10_SameEndpointNoReconnect ==
    [][noopCall => ~BeginsHandshake]_vars

\* a duty that has been started and has not ended
Active(d) == duty[d] \in {"running", "check", "sleep", "sending"}

\* C16: once any duty of a connected session has ended, the group exits
\* (stated for the sessions stop() does not interfere with).
C16_FirstExitEndsGroup ==
    (/\ pc = "connected"
     /\ stopPc = "idle"
     /\ \E d \in Duties : duty[d] \in {"done", "failed"})
        ~> (pc # "connected" \/ stopPc # "idle")

\* C17: after a heartbeat ping failed on a connected session, the session is
\* torn down and the loop goes to its backoff (stated for the sessions stop()
\* does not interfere with).
C17_PingFailureEndsGroup ==
    (pc = "connected" /\ pingFailed /\ stopPc = "idle")
        ~> (pc = "sleep" \/ stopPc # "idle")

\* C19: whenever the loop is outside a connection attempt's session (before
\* the handshake, in the handshake, in backoff or exited), the transport's
\* socket is not open and no duty is active.
C19_NothingLeftBehind ==
    pc \in {"start", "create_server", "handshake", "sleep", "exited"} =>
        /\ current_ws # "open"
        /\ \A d \in Duties : ~Active(d)

C19_Witness ==
    /\ pc = "sleep"
    /\ established
    /\ current_ws = "closed"
    /\ duty["reader"] = "failed"
    /\ duty["engine"] = "cancelled"

\* a step in which the handshake fails otherwise than by an authorization rejection
NonAuthFailure ==
    \/ \E status \in HandshakeStatuses \ {Unauthorized} : HandshakeRejected(status)
    \/ ConnectFails

\* C20: a handshake failure other than a 401 leaves should_reconnect as it is;
\* when that attempt returns with reconnection enabled the loop schedules a
\* backoff sleep; and, unless stop() is called, a new attempt follows.
C20_NonAuthFailureRetries ==
    /\ [][NonAuthFailure => should_reconnect' = should_reconnect]_vars
    /\ [][(/\ pc = "closing"
           /\ outcome \in {"rejected", "error"}
           /\ should_reconnect
           /\ pc' # pc) => SchedulesBackoff]_vars
    /\ (/\ pc = "closing"
        /\ outcome \in {"rejected", "error"}
        /\ should_reconnect
        /\ stopPc = "idle"
        /\ reconnect_times < MaxReconnectTimes)
           ~> (pc = "create_server" \/ stopPc # "idle")

C20_Witness ==
    /\ pc = "sleep"
    /\ outcome \in {"rejected", "error"}
    /\ should_reconnect
    /\ stopPc = "idle"

\* C13: after async_setup_entry has run again for the entry, at most one
\* socket is open for it: the replaced transport's socket and the new
\* transport's socket are never open together.
C13_OneSocketPerEntry == ~(current_ws = "open" /\ successor = "open")

\* what the claim names as the condition for a call: the entry has an
\* endpoint and a transport, they differ, and the state is LOADED or FAILED_UNLOAD
MayBeCalled(ent) ==
    /\ ent.mcp_endpoint # NoEndpoint
    /\ ent.has_transport
    /\ ent.mcp_endpoint # ent.transport.endpoint
    /\ ent.state \in {"LOADED", "FAILED_UNLOAD"}

\* C14: a pass calls set_endpoint only on entries whose endpoint differs from
\* their transport's and whose state is LOADED or FAILED_UNLOAD; every other
\* entry keeps its transport's endpoint, counter and flag.
C14_ReconcileFrame ==
    [][Reconcile =>
        \A i \in EntryIds :
            /\ i \in regCalled' => MayBeCalled(reg[i])
            /\ ~MayBeCalled(reg[i]) => reg'[i] = reg[i]]_vars

C14_Witness ==
    /\ reg # <<>>
    /\ regCalled = {"e1"}
    /\ reg["e1"].transport.endpoint = reg["e1"].mcp_endpoint
    /\ reg["e2"].state = "UNLOAD_IN_PROGRESS"
    /\ reg["e2"].has_transport
    /\ reg["e2"].mcp_endpoint \notin {NoEndpoint, reg["e2"].transport.endpoint}
    /\ reg["e2"].transport.reconnect_times = 3

\* C15: a second pass over the same entries calls set_endpoint on none of
\* them and changes no transport.
C15_ReconcileIdempotent ==
    [][(Reconcile /\ passes >= 1) => (regCalled' = {} /\ reg' = reg)]_vars

C15_Witness ==
    /\ reg # <<>>
    /\ passes = 2
    /\ regCalled = {}
    /\ \E i \in EntryIds : reg[i].has_transport /\ reg[i].transport.endpoint = reg[i].mcp_endpoint
                           /\ reg[i].transport.endpoint # NoEndpoint

IsPrefix(a, b) == Len(a) <= Len(b) /\ SubSeq(b, 1, Len(a)) = a

\* the frame the reader is handing over, if any
InHandOver == IF duty["reader"] = "sending" THEN <<inHeld>> ELSE <<>>

\* C11 as stated: whenever the reader of a connection is between two frames,
\* the server run has been handed every valid text frame received so far.
C11_EveryValidFrameDelivered ==
    (pc = "connected" /\ duty["reader"] = "running") =>
        delivered = ValidPositions(received)

\* C11: the frames handed to the server run are a prefix of the valid text
\* frames received, in their order and without repetition, and while the
\* inbound channel is open they are all of them but the one being handed over.
C11_InboundFifo ==
    /\ IsPrefix(delivered, ValidPositions(received))
    /\ (pc = "connected" /\ InboundOpen) =>
           delivered \o InHandOver = ValidPositions(received)

C11_Witness ==
    /\ received = <<"text", "bad", "text">>
    /\ delivered = <<1, 3>>
    /\ Len(sent) = 1

\* C12: what the writer has sent on the socket is a prefix of what the server
\* run has put on the outbound channel.
C12_OutboundPrefix == IsPrefix(sent, produced)

C12_Witness == sent = <<1, 2>> /\ Len(received) = 2

\* C18: once the writer of a connection has ended, the group ends and control
\* is back in the connection loop.
C18_TeardownTerminates ==
    (pc = "connected" /\ duty["writer"] = "done") ~> (pc \in {"sleep", "exited"})

\* C21: a connection that ends without stop() having been called is followed
\* by the backoff, never by the end of the loop, and then by a new attempt.
C21_SessionEndLeadsToRetry ==
    /\ [][(pc = "closing" /\ established /\ stopPc = "idle" /\ pc' # pc)
            => SchedulesBackoff]_vars
    /\ (pc = "closing" /\ established /\ stopPc = "idle")
           ~> (pc = "create_server" \/ stopPc # "idle")

C21_Witness ==
    /\ pc = "sleep" /\ established /\ stopPc = "idle"
    /\ duty["writer"] = "done" /\ duty["engine"] = "done" /\ duty["reader"] = "failed"

\* C22: every backoff is scheduled by the end of one attempt and adds one to
\* the counter, whatever the number of duties that ended; the sleep is left
\* only when it is over, into one new pass of the loop.
C22_OneRetryPerAttempt ==
    /\ [][SchedulesBackoff =>
            /\ pc \in {"create_server", "closing"}
            /\ reconnect_times' = reconnect_times + 1
            /\ sleepLeft' = BackoffSeconds(reconnect_times)]_vars
    /\ [][(pc = "sleep" /\ pc' # "sleep") =>
            (sleepLeft = 0 /\ pc' \in {"create_server", "exited"}
             /\ reconnect_times' = reconnect_times)]_vars

C22_Witness ==
    /\ pc = "sleep" /\ established /\ reconnect_times = 1 /\ failRun = 1
    /\ duty = [reader |-> "failed", writer |-> "done", heartbeat |-> "done", engine |-> "done"]

\* C23: with an endpoint, without stop() and without a 401 the loop never
\* ends, and it goes on making attempts unless a connection lasts (or the
\* counter reaches the cap of the model).
C23_NeverGivesUp ==
    /\ [][(pc # "exited" /\ pc' = "exited") =>
            (stopPc # "idle" \/ outcome = "auth" \/ endpoint = NoEndpoint)]_vars
    /\ \/ []<>(pc = "create_server")
       \/ <>(stopPc # "idle" \/ outcome = "auth" \/ endpoint = NoEndpoint)
       \/ <>[](pc = "connected")
       \/ <>(reconnect_times = MaxReconnectTimes)

C23_Witness ==
    /\ pc = "create_server" /\ failRun = 4 /\ stopPc = "idle"
    /\ outcome = "none" /\ should_reconnect

\* the messages the server run has put on the outbound channel and nobody has taken
Offered == IF duty["engine"] = "sending" THEN 1 ELSE 0

\* the message the writer has taken and not yet sent
InSend == IF duty["writer"] = "sending" THEN 1 ELSE 0

C25_FreshChannelsPerAttempt ==
    /\ pc \in {"handshake", "connected"} => (streamsOf = "this" /\ session_open)
    /\ pc \in {"closing", "sleep", "create_server", "handshake", "exited"} =>
           (inHeld = 0 /\ outHeld = 0)
    /\ \A i \in 1..Len(delivered) :
           delivered[i] \in 1..Len(received) /\ received[delivered[i]] = "text"
    /\ \A i \in 1..Len(sent) : sent[i] \in 1..Len(produced)
    /\ outHeld # 0 => outHeld \in 1..Len(produced)
    /\ inHeld # 0 => inHeld \in 1..Len(received)

C25_Witness ==
    /\ sleeps = 1 /\ pc = "connected" /\ streamsOf = "this"
    /\ delivered = <<1>> /\ sent = <<1>> /\ duty["reader"] = "sending"

\* C26: outside an attempt no session of this transport is registered, and an
\* attempt registers its session only when the one before has been released.
C26_SessionReleased ==
    /\ [](pc \in {"start", "create_server", "sleep", "exited"} => ~session_open)
    /\ [][(session_open' /\ pc' = "handshake" /\ pc # "handshake") => ~session_open]_vars

C26_Witness ==
    /\ pc = "sleep" /\ ~session_open /\ established /\ duty["engine"] = "cancelled"

\* the reader takes a frame that does not parse or validate
TakesBadFrame == received' # received /\ received'[Len(received')] = "bad"

\* C27: a frame that does not parse or validate puts nothing on the inbound
\* channel and changes neither the socket nor any duty; no such frame is ever
\* among the delivered ones, and the valid frames after it are handed over.
C27_BadFrameDropped ==
    /\ [][TakesBadFrame =>
            /\ delivered' = delivered /\ inHeld' = inHeld
            /\ current_ws' = current_ws /\ current_ws = "open"
            /\ duty' = duty /\ pc' = pc /\ streams' = streams]_vars
    /\ [](\A i \in 1..Len(delivered) : received[delivered[i]] # "bad")
    /\ []((pc = "connected" /\ InboundOpen /\ duty["reader"] = "running") =>
            Len(delivered) = Len(ValidPositions(received)))

C27_Witness ==
    /\ received = <<"bad", "text">> /\ delivered = <<2>>
    /\ current_ws = "open" /\ pc = "connected"

\* C28: a connection is left only with the reader ended by its exception, all
\* other duties ended or cancelled and the error raised; and once the socket
\* is closed under the reader, or the reader has ended, the backoff follows
\* (unless stop() is called).
C28_ReaderEndCancelsGroup ==
    /\ [][(pc = "connected" /\ pc' # "connected") =>
            /\ duty["reader"] = "failed"
            /\ raised'
            /\ \A d \in Duties : duty'[d] \in {"done", "failed", "cancelled"}]_vars
    /\ (/\ pc = "connected" /\ stopPc = "idle"
        /\ \/ duty["reader"] = "failed"
           \/ duty["reader"] = "running" /\ current_ws = "closed")
           ~> (pc = "sleep" \/ stopPc # "idle")

C28_Witness ==
    /\ pc = "sleep" /\ stopPc = "idle" /\ established
    /\ duty = [reader |-> "failed", writer |-> "cancelled",
               heartbeat |-> "cancelled", engine |-> "cancelled"]

\* C29: the heartbeat calls ping() only on a socket that is open, and never
\* after stop() has been called (stated for the pings made while the reader
\* is suspended in a hand-over, when no end of the group is under way).
C29_PingOnlyOnOpenSocket ==
    [][((\E ok \in BOOLEAN : HeartbeatPing(ok)) /\ duty["reader"] = "sending") =>
            (current_ws = "open" /\ stopPc = "idle")]_vars

\* C30: ws_connect is never called while the socket of an earlier attempt of
\* this transport is open, and outside a connection no socket of it is open.
C30_OneSocketPerTransport ==
    /\ [][BeginsHandshake => current_ws # "open"]_vars
    /\ [](current_ws = "open" => pc = "connected")

C30_Witness ==
    /\ pc = "handshake" /\ current_ws = "closed" /\ streamsOf = "this"
    /\ failRun = 1 /\ stopPc = "idle"

\* C31: set_endpoint sets the counter to zero in whatever state it is called
\* and leaves a sleep in progress as it is; the first backoff scheduled after
\* it (after any reset of the counter) lasts one time unit.
C31_SetEndpointResetsBackoff ==
    /\ [][(\E e \in Endpoints : set_endpoint(e)) =>
            (reconnect_times' = 0 /\ sleepLeft' = sleepLeft /\ pc' = pc)]_vars
    /\ [][(SchedulesBackoff /\ failRun = 0) =>
            (reconnect_times = 0 /\ sleepLeft' = MinDelay)]_vars

C31_Witness ==
    /\ pc = "sleep" /\ sleepLeft = MinDelay /\ failRun = 1 /\ swapPending
    /\ reconnect_times = 1 /\ stopPc = "idle"

\* C32: every delay scheduled lies between 1 and 60, what is left of a sleep
\* never exceeds 60, and a delay scheduled after another one without a reset
\* of the counter in between is not shorter than that one.
C32_DelayBoundedAndMonotone ==
    /\ [](pc = "sleep" => sleepLeft \in 0..MaxDelay)
    /\ [](failRun = reconnect_times)
    /\ [][SchedulesBackoff => sleepLeft' \in MinDelay..MaxDelay]_vars
    /\ [][(SchedulesBackoff /\ failRun >= 1) =>
            sleepLeft' >= BackoffSeconds(failRun - 1)]_vars

C32_Witness ==
    /\ pc = "sleep" /\ failRun = 3 /\ sleepLeft = 10 /\ reconnect_times = 3

\* C33: a frame read while the inbound channel is closed is dropped and the
\* reader goes on; a hand-over that fails because the channel is closed
\* leaves the reader reading; the reader ends only on a closed socket, an
\* ERROR frame or a read error.
C33_ReaderSurvivesClosedChannel ==
    /\ [][(received' # received /\ ~InboundOpen) =>
            /\ duty' = duty /\ duty["reader"] = "running"
            /\ delivered' = delivered /\ inHeld' = inHeld
            /\ current_ws' = current_ws /\ pc' = pc]_vars
    /\ [][(duty["reader"] = "sending" /\ duty'["reader"] # "sending" /\ ~InboundOpen
           /\ pc' = "connected") =>
            (duty'["reader"] = "running" /\ delivered' = delivered
             /\ current_ws' = current_ws)]_vars
    /\ [][(duty["reader"] # "failed" /\ duty'["reader"] = "failed") =>
            (ReaderEnds \/ RemoteError)]_vars

C33_Witness ==
    /\ pc = "connected" /\ current_ws = "open" /\ duty["reader"] = "running"
    /\ streams["recv_reader"] = "closed"
    /\ received = <<"text", "text", "text">> /\ delivered = <<1>>

\* C34: a pass calls set_endpoint only with an endpoint that is not empty, and
\* a transport that had an endpoint before the pass has one after it.
C34_ReconcileKeepsEndpoint ==
    [][Reconcile =>
        \A i \in EntryIds :
            /\ i \in regCalled' =>
                   (reg[i].mcp_endpoint # NoEndpoint
                    /\ reg'[i].transport.endpoint = reg[i].mcp_endpoint)
            /\ (reg[i].has_transport /\ reg[i].transport.endpoint # NoEndpoint) =>
                   reg'[i].transport.endpoint # NoEndpoint]_vars

C34_Witness ==
    /\ reg # <<>>
    /\ passes = 1
    /\ regCalled = {"e2"}
    /\ reg["e1"].mcp_endpoint = NoEndpoint /\ reg["e1"].state = "LOADED"
    /\ reg["e1"].has_transport /\ reg["e1"].transport.endpoint # NoEndpoint

\* C35: an attempt that was connected ends with an exception, so it goes to
\* the backoff, or to the end of the loop by the test of line 96 when the flag
\* is false; connect_to_client returns False only for a missing endpoint or
\* after a refused handshake with the flag false.
C35_ConnectedAttemptRaises ==
    /\ []((pc = "closing" /\ established) => raised)
    /\ [][(pc = "closing" /\ established /\ pc' # pc) =>
            (IF should_reconnect THEN pc' = "sleep" ELSE pc' = "exited")]_vars
    /\ [][(pc = "closing" /\ ~raised /\ pc' = "exited") =>
            (outcome \in {"auth", "rejected"} /\ ~should_reconnect /\ ~established)]_vars
    /\ [][(pc \in {"start", "sleep"} /\ pc' = "exited" /\ should_reconnect) =>
            endpoint = NoEndpoint]_vars

C35_Witness ==
    /\ pc = "closing" /\ established /\ raised /\ ~should_reconnect
    /\ stopPc = "returned" /\ duty["reader"] = "failed"

====
